---------------------------- MODULE Spec2Model ----------------------------
(***************************************************************************)
(* Model of concepts/01-fundamental-concepts/python/consensus_algorithms.py *)
(* (RaftNode, PaxosProposer, PaxosAcceptor).                                *)
(*                                                                         *)
(* Scheduling.  The program runs on one asyncio event loop.  A coroutine    *)
(* awaited directly (await node.request_vote(...), await                    *)
(* node.append_entries(...), await self._send_heartbeat(), ...) runs inline *)
(* in the caller's task; a task is suspended only by asyncio.sleep (the     *)
(* election timer, line 53; the heartbeat loop, line 126) and by            *)
(* asyncio.gather (PaxosProposer, lines 243 and 266).  So every action      *)
(* below is the code that runs between two suspensions:                     *)
(*   StartElection(i)  one expiry of node i's election timer: lines 53-57   *)
(*                     and the whole of _start_election, with every         *)
(*                     request_vote it calls and, when the node wins,       *)
(*                     _become_leader with its first heartbeat;             *)
(*   HeartbeatTick(i)  one wake-up of node i's heartbeat loop (127, 125);   *)
(*   ProposeEntry(i,c) one client call of propose_entry, with               *)
(*                     _replicate_log and _update_commit_index.             *)
(* The clock is not modelled: whether the comparison of line 56 passes when *)
(* a timer wakes depends on wall-clock time (the loop may be delayed), so a *)
(* live election timer of a non-leader may expire at any step.              *)
(***************************************************************************)
EXTENDS Integers, Sequences, FiniteSets, TLC

\* ------------------------------------------------------------- bounds
\* Cluster size (demonstrate_raft builds range(5); the model keeps it small).
NumNodes == 3
\* Elections are started only while current_term is below MaxTerm.
MaxTerm == 2
\* propose_entry is called only while the leader's log is shorter than MaxLog.
MaxLog == 3

\* Number of PaxosAcceptors (demonstrate_paxos builds range(5)).
NumAcceptors == 3
\* Number of PaxosProposers on those acceptors; their ids are 1 .. NumProposers.
NumProposers == 2
\* A proposer starts at most MaxRounds runs of prepare().
MaxRounds == 2

Nodes == 0 .. (NumNodes - 1)
Acceptors == 0 .. (NumAcceptors - 1)
Proposers == 1 .. NumProposers
\* Proposed values; 0 is a value Python treats as false.
Values == {0, 1}
\* Client commands (opaque values).
Commands == {"x", "y"}
\* Python's None where an integer id is expected (node ids are >= 0).
None == -1

VARIABLES
  node,           \* node[i]: the fields of RaftNode i
  timerAlive,     \* timerAlive[i]: node i's start() task is asleep in _start_election_timer
  hbAlive,        \* hbAlive[i]: node i's _heartbeat_loop task is asleep at line 126
  everLeader,     \* history: <<term, id>> for every node seen in state 'leader'
  elected,        \* history: [term, id, log] recorded by _become_leader
  committed,      \* history: [index, entry, term] recorded when a leader advances commit_index
  committedSeen,  \* history: committedSeen[i] = every <<index, entry>> node i held at or below its commit_index
  lastCall,       \* the last direct call of one operation: its arguments, result and the state before
  acceptor,       \* acceptor[a]: the fields of PaxosAcceptor a
  proposer,       \* proposer[p]: the fields of PaxosProposer p and the position of its prepare() run
  chosen,         \* history: every result dict a PaxosProposer.prepare run returned
  quorumAccepted  \* history: [n, value, proposer, quorum] for every Accept a majority granted

raftVars == <<node, timerAlive, hbAlive, everLeader, elected, committed, committedSeen>>
paxosVars == <<acceptor, proposer, chosen, quorumAccepted>>
vars == <<raftVars, lastCall, paxosVars>>

\* ------------------------------------------------------------- helpers
Min(a, b) == IF a < b THEN a ELSE b
Max(a, b) == IF a > b THEN a ELSE b

\* Python's seq[:stop] (a negative stop counts from the end).
PyPrefix(s, stop) ==
  LET e == IF stop < 0 THEN Max(0, Len(s) + stop) ELSE Min(stop, Len(s))
  IN  SubSeq(s, 1, e)

\* Python's seq[start:] for start >= 0.
PySuffix(s, start) == SubSeq(s, Min(start, Len(s)) + 1, Len(s))

\* Python's seq[i] for 0 <= i < len(seq).
At(s, i) == s[i + 1]

\* self.log[-1].term if self.log else 0
LastLogTerm(log) == IF Len(log) > 0 THEN log[Len(log)].term ELSE 0

\* dict.get(key, default)
DictGet(d, k, default) == IF k \in DOMAIN d THEN d[k] ELSE default

\* The empty dict {}.
EmptyDict == [k \in {} |-> 0]

\* Mutant of InitNode: commit_index starts at 0, as with 1-based log indices.
InitNodeCommitZero ==
  [state |-> "follower", current_term |-> 0, voted_for |-> None, log |-> <<>>,
   commit_index |-> 0, last_applied |-> -1,
   next_index |-> EmptyDict, match_index |-> EmptyDict]

\* RaftNode.__init__
InitNode ==
  [state |-> "follower", current_term |-> 0, voted_for |-> None, log |-> <<>>,
   commit_index |-> -1, last_applied |-> -1,
   next_index |-> EmptyDict, match_index |-> EmptyDict]

\* Mutant of VotesNeeded: every node and one more must vote.
VotesNeededTooMany == NumNodes + 1

\* Mutant of VotesNeeded: half of the nodes, rounded down, are enough.
VotesNeededHalf == NumNodes \div 2

\* len(self.nodes) // 2 + 1
VotesNeeded == (NumNodes \div 2) + 1

\* ------------------------------------------------------------- handlers
\* Mutant of RequestVote: the candidate's log is not compared.
RequestVoteNoLogCheck(nd, term, candidate_id, last_log_index, last_log_term) ==
  LET nd1 == IF term > nd.current_term
             THEN [nd EXCEPT !.current_term = term, !.voted_for = None,
                             !.state = "follower"]
             ELSE nd
  IN  IF term = nd1.current_term /\ (nd1.voted_for = None \/ nd1.voted_for = candidate_id)
      THEN [node |-> [nd1 EXCEPT !.voted_for = candidate_id], result |-> TRUE, heartbeat |-> FALSE]
      ELSE [node |-> nd1, result |-> FALSE, heartbeat |-> FALSE]

\* Mutant of RequestVote: a vote already given in the term is not looked at.
RequestVoteIgnoresVote(nd, term, candidate_id, last_log_index, last_log_term) ==
  LET nd1 == IF term > nd.current_term
             THEN [nd EXCEPT !.current_term = term, !.voted_for = None,
                             !.state = "follower"]
             ELSE nd
      grant == /\ term = nd1.current_term
               /\ \/ last_log_term > LastLogTerm(nd1.log)
                  \/ /\ last_log_term = LastLogTerm(nd1.log)
                     /\ last_log_index >= Len(nd1.log) - 1
  IN  IF grant
      THEN [node |-> [nd1 EXCEPT !.voted_for = candidate_id], result |-> TRUE,
            heartbeat |-> FALSE]
      ELSE [node |-> nd1, result |-> FALSE, heartbeat |-> FALSE]

\* Mutant of RequestVote: a larger term is adopted without leaving the role.
RequestVoteKeepsRole(nd, term, candidate_id, last_log_index, last_log_term) ==
  LET nd1 == IF term > nd.current_term
             THEN [nd EXCEPT !.current_term = term, !.voted_for = None]
             ELSE nd
      grant == /\ term = nd1.current_term
               /\ (nd1.voted_for = None \/ nd1.voted_for = candidate_id)
               /\ \/ last_log_term > LastLogTerm(nd1.log)
                  \/ /\ last_log_term = LastLogTerm(nd1.log)
                     /\ last_log_index >= Len(nd1.log) - 1
  IN  IF grant
      THEN [node |-> [nd1 EXCEPT !.voted_for = candidate_id], result |-> TRUE, heartbeat |-> FALSE]
      ELSE [node |-> nd1, result |-> FALSE, heartbeat |-> FALSE]

\* RaftNode.request_vote on receiver nd: the receiver afterwards, the result,
\* and whether the call assigned last_heartbeat (no line of 89-105 does).
RequestVote(nd, term, candidate_id, last_log_index, last_log_term) ==
  LET nd1 == IF term > nd.current_term
             THEN [nd EXCEPT !.current_term = term, !.voted_for = None,
                             !.state = "follower"]
             ELSE nd
      grant == /\ term = nd1.current_term
               /\ (nd1.voted_for = None \/ nd1.voted_for = candidate_id)
               /\ \/ last_log_term > LastLogTerm(nd1.log)
                  \/ /\ last_log_term = LastLogTerm(nd1.log)
                     /\ last_log_index >= Len(nd1.log) - 1
  IN  IF grant
      THEN [node |-> [nd1 EXCEPT !.voted_for = candidate_id], result |-> TRUE, heartbeat |-> FALSE]
      ELSE [node |-> nd1, result |-> FALSE, heartbeat |-> FALSE]

\* Mutant of AppendToLog: the log is cut one entry too early.
AppendToLogOffByOne(log, prev_log_index, entries) ==
  IF entries # <<>> THEN PyPrefix(log, prev_log_index) \o entries ELSE log

\* Mutant of AppendToLog: the entries are never stored.
AppendToLogNoExtend(log, prev_log_index, entries) == log

\* Mutant of AppendToLog: the log is cut for an empty entries list too.
AppendToLogAlwaysCut(log, prev_log_index, entries) ==
  PyPrefix(log, prev_log_index + 1) \o entries

\* The slice-and-extend of append_entries, lines 159-161.
AppendToLog(log, prev_log_index, entries) ==
  IF entries # <<>> THEN PyPrefix(log, prev_log_index + 1) \o entries ELSE log

\* Mutant of FollowerCommit: the test of line 164 is dropped.
FollowerCommitAlways(commit_index, leader_commit, log) ==
  Min(leader_commit, Len(log) - 1)

\* The commit_index update of append_entries, lines 164-165.
FollowerCommit(commit_index, leader_commit, log) ==
  IF leader_commit > commit_index
  THEN Min(leader_commit, Len(log) - 1)
  ELSE commit_index

\* Mutant of TermIsCurrent: a term one below the receiver's is accepted.
TermOneBelow(term, current_term) == term >= current_term - 1

\* Mutant of TermIsCurrent: a stale term is accepted too.
TermAlwaysCurrent(term, current_term) == TRUE

\* The test of append_entries, line 146.
TermIsCurrent(term, current_term) == term >= current_term

\* Mutant of LogMismatch: only the log's length is checked.
LogMismatchLengthOnly(log, prev_log_index, prev_log_term) ==
  prev_log_index >= 0 /\ Len(log) <= prev_log_index

\* The consistency check of append_entries, lines 153-155.
LogMismatch(log, prev_log_index, prev_log_term) ==
  /\ prev_log_index >= 0
  /\ \/ Len(log) <= prev_log_index
     \/ At(log, prev_log_index).term # prev_log_term

\* Mutant of AppendEntries: the receiver keeps its role.
AppendEntriesKeepsRole(nd, term, leader_id, prev_log_index, prev_log_term, entries, leader_commit) ==
  IF TermIsCurrent(term, nd.current_term)
  THEN LET nd1 == [nd EXCEPT !.current_term = term, !.voted_for = None]
       IN  IF LogMismatch(nd1.log, prev_log_index, prev_log_term)
           THEN [node |-> nd1, result |-> FALSE, heartbeat |-> TRUE]
           ELSE LET log2 == AppendToLog(nd1.log, prev_log_index, entries)
                IN  [node |-> [nd1 EXCEPT !.log = log2,
                                 !.commit_index =
                                    FollowerCommit(nd1.commit_index, leader_commit, log2)],
                     result |-> TRUE, heartbeat |-> TRUE]
  ELSE [node |-> nd, result |-> FALSE, heartbeat |-> FALSE]

\* RaftNode.append_entries on receiver nd: the receiver afterwards, the result,
\* and whether the call assigned last_heartbeat (line 150; the clock's value is
\* not modelled, only the assignment).
AppendEntries(nd, term, leader_id, prev_log_index, prev_log_term, entries, leader_commit) ==
  IF TermIsCurrent(term, nd.current_term)
  THEN LET nd1 == [nd EXCEPT !.current_term = term, !.state = "follower",
                             !.voted_for = None]
       IN  IF LogMismatch(nd1.log, prev_log_index, prev_log_term)
           THEN [node |-> nd1, result |-> FALSE, heartbeat |-> TRUE]
           ELSE LET log2 == AppendToLog(nd1.log, prev_log_index, entries)
                IN  [node |-> [nd1 EXCEPT !.log = log2,
                                 !.commit_index =
                                    FollowerCommit(nd1.commit_index, leader_commit, log2)],
                     result |-> TRUE, heartbeat |-> TRUE]
  ELSE [node |-> nd, result |-> FALSE, heartbeat |-> FALSE]

\* The count of _update_commit_index for index i, lines 217-220.
CommitCount(nd, id, i) ==
  1 + Cardinality({k \in Nodes : k # id /\ DictGet(nd.match_index, k, -1) >= i})

\* Mutant of CommitTest: the entry's term is not compared with current_term.
CommitTestNoTerm(nd, id, i) == 2 * CommitCount(nd, id, i) > NumNodes

\* The test of line 222 (len(self.nodes) / 2 is a float division).
CommitTest(nd, id, i) ==
  /\ 2 * CommitCount(nd, id, i) > NumNodes
  /\ At(nd.log, i).term = nd.current_term

\* The loop of _update_commit_index from index i on; ci is commit_index so far.
RECURSIVE UpdateCommitLoop(_, _, _, _)
UpdateCommitLoop(nd, id, i, ci) ==
  IF i >= Len(nd.log) THEN ci
  ELSE UpdateCommitLoop(nd, id, i + 1, IF CommitTest(nd, id, i) THEN i ELSE ci)

\* RaftNode._update_commit_index
UpdateCommitIndex(nd, id) ==
  [nd EXCEPT !.commit_index = UpdateCommitLoop(nd, id, nd.commit_index + 1, nd.commit_index)]


\* ------------------------------------------------------------- operations
\* Mutant of ElectionTerm: the candidate keeps its term.
ElectionTermSame(nd) == nd.current_term

\* The term a candidate stands for, line 65.
ElectionTerm(nd) == nd.current_term + 1

\* Mutant of BecomeLeader: entries the dicts already hold are kept.
BecomeLeaderKeepsDicts(nd) ==
  [nd EXCEPT !.state = "leader",
             !.next_index = [k \in Nodes |-> DictGet(nd.next_index, k, Len(nd.log))],
             !.match_index = [k \in Nodes |-> DictGet(nd.match_index, k, -1)]]

\* The state changes of _become_leader, lines 110-115 (every node of self.nodes,
\* the leader included, gets an entry in both dicts).
BecomeLeader(nd) ==
  [nd EXCEPT !.state = "leader",
             !.next_index = [k \in Nodes |-> Len(nd.log)],
             !.match_index = [k \in Nodes |-> -1]]

\* Mutant of SendHeartbeat: the heartbeat carries no commit index.
SendHeartbeatNoCommit(cl, i) ==
  [k \in Nodes |->
     IF k = i THEN cl[i]
     ELSE AppendEntries(cl[k], cl[i].current_term, i, Len(cl[i].log) - 1,
                        LastLogTerm(cl[i].log), <<>>, -1).node]

\* RaftNode._send_heartbeat by node i in cluster cl: every other node handles an
\* append_entries with no entries; the results are dropped.
SendHeartbeat(cl, i) ==
  [k \in Nodes |->
     IF k = i THEN cl[i]
     ELSE AppendEntries(cl[k], cl[i].current_term, i, Len(cl[i].log) - 1,
                        LastLogTerm(cl[i].log), <<>>, cl[i].commit_index).node]

\* Mutant of EntriesFrom: the slice starts one entry late.
EntriesFromSkip(log, next_idx) == PySuffix(log, next_idx + 1)

\* The entries _replicate_log sends to a peer whose next_index is next_idx, line 192.
EntriesFrom(log, next_idx) == PySuffix(log, next_idx)

\* The append_entries call of _replicate_log to peer k, lines 191-203.
ReplicateCall(cl, i, k) ==
  LET next_idx == cl[i].next_index[k]
      prev_log_index == next_idx - 1
      prev_log_term == IF prev_log_index >= 0
                       THEN At(cl[i].log, prev_log_index).term ELSE 0
  IN  AppendEntries(cl[k], cl[i].current_term, i, prev_log_index, prev_log_term,
                    EntriesFrom(cl[i].log, next_idx), cl[i].commit_index)

\* Mutant of ReplicateLog: next_index is decremented without a floor.
ReplicateLogNoFloor(cl, i) ==
  LET ok(k) == ReplicateCall(cl, i, k).result
      ldr == [cl[i] EXCEPT
                !.next_index = [k \in DOMAIN cl[i].next_index |->
                    IF k = i THEN cl[i].next_index[k]
                    ELSE IF ok(k) THEN Len(cl[i].log)
                    ELSE cl[i].next_index[k] - 1],
                !.match_index = [k \in DOMAIN cl[i].match_index |->
                    IF k # i /\ ok(k) THEN Len(cl[i].log) - 1
                    ELSE cl[i].match_index[k]]]
  IN  [k \in Nodes |->
         IF k = i THEN UpdateCommitIndex(ldr, i) ELSE ReplicateCall(cl, i, k).node]

\* RaftNode._replicate_log by node i in cluster cl (a peer's call changes that
\* peer and the leader's two dict entries for it), then _update_commit_index.
ReplicateLog(cl, i) ==
  LET ok(k) == ReplicateCall(cl, i, k).result
      ldr == [cl[i] EXCEPT
                !.next_index = [k \in DOMAIN cl[i].next_index |->
                    IF k = i THEN cl[i].next_index[k]
                    ELSE IF ok(k) THEN Len(cl[i].log)
                    ELSE Max(0, cl[i].next_index[k] - 1)],
                !.match_index = [k \in DOMAIN cl[i].match_index |->
                    IF k # i /\ ok(k) THEN Len(cl[i].log) - 1
                    ELSE cl[i].match_index[k]]]
  IN  [k \in Nodes |->
         IF k = i THEN UpdateCommitIndex(ldr, i) ELSE ReplicateCall(cl, i, k).node]

\* Mutant of NewEntry: the index counts from 1.
NewEntryIndexFromOne(nd, command) ==
  [term |-> nd.current_term, command |-> command, index |-> Len(nd.log) + 1]

\* The LogEntry propose_entry builds, lines 176-180.
NewEntry(nd, command) ==
  [term |-> nd.current_term, command |-> command, index |-> Len(nd.log)]

\* RaftNode.get_committed_entries
GetCommittedEntries(nd) == PyPrefix(nd.log, nd.commit_index + 1)

\* ------------------------------------------------------------- history
LeadersOf(cl) == {<<cl[k].current_term, k>> : k \in {j \in Nodes : cl[j].state = "leader"}}

CommittedPrefix(nd) ==
  {<<idx, At(nd.log, idx)>> : idx \in 0 .. Min(nd.commit_index, Len(nd.log) - 1)}

\* The history variables after a step that leaves the cluster as cl.
Record(cl, newElected, newCommitted) ==
  /\ everLeader' = everLeader \cup LeadersOf(cl)
  /\ elected' = elected \cup newElected
  /\ committed' = committed \cup newCommitted
  /\ committedSeen' = [k \in Nodes |-> committedSeen[k] \cup CommittedPrefix(cl[k])]

\* ------------------------------------------------------------- actions
\* Mutant of LoseElection: the candidate stays a candidate.
LoseElectionStaysCandidate(nd) == nd

\* The candidate nd after a lost election, lines 85-86.
LoseElection(nd) == [nd EXCEPT !.state = "follower"]

\* Node i's election timer expires (lines 53-57) and _start_election runs; after
\* a lost election the timer sleeps again (line 87).
ElectionRun(i) ==
  /\ timerAlive[i]
  /\ node[i].state # "leader"
  /\ LET me == [node[i] EXCEPT !.state = "candidate",
                               !.current_term = ElectionTerm(node[i]),
                               !.voted_for = i]
         rv(k) == RequestVote(node[k], me.current_term, i, Len(me.log) - 1,
                              LastLogTerm(me.log))
         votes == 1 + Cardinality({k \in Nodes \ {i} : rv(k).result})
         voted == [k \in Nodes |-> IF k = i THEN me ELSE rv(k).node]
     IN  IF votes >= VotesNeeded
         THEN LET cl == SendHeartbeat([voted EXCEPT ![i] = BecomeLeader(me)], i)
              IN  /\ node' = cl
                  /\ timerAlive' = [timerAlive EXCEPT ![i] = FALSE]
                  /\ hbAlive' = [hbAlive EXCEPT ![i] = TRUE]
                  /\ Record(cl, {[term |-> me.current_term, id |-> i, log |-> me.log]}, {})
         ELSE LET cl == [voted EXCEPT ![i] = LoseElection(me)]
              IN  /\ node' = cl
                  /\ UNCHANGED <<timerAlive, hbAlive>>
                  /\ Record(cl, {}, {})

\* ElectionRun while the node's term is below the bound.
StartElection(i) ==
  /\ node[i].current_term < MaxTerm
  /\ ElectionRun(i)

\* Node i's heartbeat loop wakes from its sleep (line 126), sends one heartbeat
\* (line 127) whatever the node's state is by now, and tests the state (line 125).
HeartbeatTick(i) ==
  /\ hbAlive[i]
  /\ LET cl == SendHeartbeat(node, i)
     IN  /\ node' = cl
         /\ hbAlive' = [hbAlive EXCEPT ![i] = (node[i].state = "leader")]
         /\ UNCHANGED timerAlive
         /\ Record(cl, {}, {})

\* Mutant of ProposeEntryCall: the entry is appended and replicated before the
\* caller's role is looked at.
ProposeEntryCallLateTest(cl, i, command) ==
  LET me == [cl[i] EXCEPT !.log = Append(@, NewEntry(cl[i], command)),
                          !.next_index = [k \in Nodes |-> DictGet(@, k, 0)],
                          !.match_index = [k \in Nodes |-> DictGet(@, k, -1)]]
  IN  [cluster |-> ReplicateLog([cl EXCEPT ![i] = me], i),
       raised |-> cl[i].state # "leader", sent |-> Nodes \ {i}]

\* RaftNode.propose_entry(command) on node i of cluster cl: the cluster
\* afterwards, whether the call raised (line 174), and the peers whose
\* append_entries it called.
ProposeEntryCall(cl, i, command) ==
  IF cl[i].state # "leader"
  THEN [cluster |-> cl, raised |-> TRUE, sent |-> {}]
  ELSE LET me == [cl[i] EXCEPT !.log = Append(@, NewEntry(cl[i], command))]
       IN  [cluster |-> ReplicateLog([cl EXCEPT ![i] = me], i),
            raised |-> FALSE, sent |-> Nodes \ {i}]

\* A client calls propose_entry(command) on node i, which is the leader.
ProposeEntry(i, command) ==
  /\ node[i].state = "leader"
  /\ Len(node[i].log) < MaxLog
  /\ LET cl == ProposeEntryCall(node, i, command).cluster
     IN  /\ node' = cl
         /\ UNCHANGED <<timerAlive, hbAlive>>
         /\ Record(cl, {},
              {[index |-> idx, entry |-> At(cl[i].log, idx), term |-> cl[i].current_term] :
                 idx \in (node[i].commit_index + 1) .. cl[i].commit_index})

\* ------------------------------------------------------------- Paxos
\* PaxosAcceptor.__init__
InitAcceptor == [promised_n |-> -1, accepted_n |-> -1, accepted_value |-> None]

\* PaxosProposer.__init__; pc is the position of the proposer's prepare() run,
\* n, value, responses are that run's locals, and passed holds the proposers
\* whose acceptor tasks ran while this run has been waiting to resume.
InitProposer(p) ==
  [proposal_number |-> p, pc |-> "idle", n |-> None, value |-> None,
   responses |-> EmptyDict, outcome |-> "none", passed |-> {}]

\* Mutant of AcceptorPrepare: a number equal to the promised one is promised again.
AcceptorPrepareAtLeast(acc, n) ==
  IF n >= acc.promised_n
  THEN [acceptor |-> [acc EXCEPT !.promised_n = n],
        response |-> [promised |-> TRUE, accepted_n |-> acc.accepted_n,
                      accepted_value |-> acc.accepted_value]]
  ELSE [acceptor |-> acc, response |-> [promised |-> FALSE]]

\* Mutant of AcceptorPrepare: the promised number is reported as the accepted one.
AcceptorPrepareReportsPromised(acc, n) ==
  IF n > acc.promised_n
  THEN [acceptor |-> [acc EXCEPT !.promised_n = n],
        response |-> [promised |-> TRUE, accepted_n |-> acc.promised_n,
                      accepted_value |-> acc.accepted_value]]
  ELSE [acceptor |-> acc, response |-> [promised |-> FALSE]]

\* PaxosAcceptor.prepare: the acceptor afterwards and the response dict.
AcceptorPrepare(acc, n) ==
  IF n > acc.promised_n
  THEN [acceptor |-> [acc EXCEPT !.promised_n = n],
        response |-> [promised |-> TRUE, accepted_n |-> acc.accepted_n,
                      accepted_value |-> acc.accepted_value]]
  ELSE [acceptor |-> acc, response |-> [promised |-> FALSE]]

\* Mutant of AcceptorAccept: a number equal to the promised one is refused.
AcceptorAcceptStrict(acc, n, value) ==
  IF n > acc.promised_n
  THEN [acceptor |-> [acc EXCEPT !.promised_n = n, !.accepted_n = n,
                                 !.accepted_value = value],
        response |-> [accepted |-> TRUE]]
  ELSE [acceptor |-> acc, response |-> [accepted |-> FALSE]]

\* Mutant of AcceptorAccept: the proposal number is not compared.
AcceptorAcceptNoTest(acc, n, value) ==
  [acceptor |-> [acc EXCEPT !.promised_n = n, !.accepted_n = n,
                            !.accepted_value = value],
   response |-> [accepted |-> TRUE]]

\* PaxosAcceptor.accept: the acceptor afterwards and the response dict.
AcceptorAccept(acc, n, value) ==
  IF n >= acc.promised_n
  THEN [acceptor |-> [acc EXCEPT !.promised_n = n, !.accepted_n = n,
                                 !.accepted_value = value],
        response |-> [accepted |-> TRUE]]
  ELSE [acceptor |-> acc, response |-> [accepted |-> FALSE]]

\* Python's truth value of an accepted value (None and 0 are false).
Truthy(v) == v # None /\ v # 0

\* The test of lines 254-255 on one response.
ReportsHigher(response, highest_n) ==
  /\ response.promised
  /\ Truthy(DictGet(response, "accepted_value", None))
  /\ DictGet(response, "accepted_n", -1) > highest_n

\* The loop of lines 253-257 from acceptor a on: the final
\* <<highest_n, highest_accepted>>.
RECURSIVE HighestLoop(_, _, _, _)
HighestLoop(responses, a, highest_n, highest_accepted) ==
  IF a >= NumAcceptors THEN <<highest_n, highest_accepted>>
  ELSE IF ReportsHigher(responses[a], highest_n)
       THEN HighestLoop(responses, a + 1, responses[a].accepted_n,
                        responses[a].accepted_value)
       ELSE HighestLoop(responses, a + 1, highest_n, highest_accepted)

\* value_to_propose, lines 250-259.
ValueToPropose(responses, value) ==
  LET highest_accepted == HighestLoop(responses, 0, -1, None)[2]
  IN  IF highest_accepted # None THEN highest_accepted ELSE value

\* sum(1 for r in responses if r[key])
CountTrue(responses, key) == Cardinality({a \in Acceptors : responses[a][key]})

\* Mutant of IsMajority: half of the acceptors are enough.
IsMajorityHalf(count) == count >= NumAcceptors \div 2

\* prepare(), line 246, negated: promises_count > len(self.acceptors) // 2.
IsMajority(count) == count > NumAcceptors \div 2

\* Mutant of AcceptsMajority: every acceptor is needed.
AcceptsMajorityAll(count) == count >= NumAcceptors

\* accept(), line 269: accepts_count > len(self.acceptors) // 2.
AcceptsMajority(count) == count > NumAcceptors \div 2

\* The event loop runs its ready callbacks in the order they were queued.  The
\* acceptor tasks of a gather() run three turns of the loop after the acceptor
\* tasks of the same proposer's previous gather() (tasks, their done callbacks,
\* the proposer's wake-up, the next tasks), and the proposer resumes two turns
\* after its tasks ran: while a run waits to resume, every other proposer gets
\* the acceptor tasks of at most one gather() through.
MayRun(q) ==
  \A x \in (DOMAIN proposer) \ {q} : proposer[x].pc = "idle" \/ q \notin proposer[x].passed

\* The proposers pr after the acceptor tasks of proposer q ran.
Overtake(pr, q) ==
  [x \in DOMAIN pr |->
     IF x # q /\ pr[x].pc # "idle" THEN [pr[x] EXCEPT !.passed = @ \cup {q}] ELSE pr[x]]

\* PaxosProposer.prepare(value) up to its first suspension and the acceptors'
\* prepare tasks gather() started (lines 240-243): the tasks of one gather run
\* one after the other, nothing else between them.
PreparePhase(p, value) ==
  /\ proposer[p].pc = "idle"
  /\ proposer[p].proposal_number < p + MaxRounds * NumAcceptors
  /\ MayRun(p)
  /\ LET n == proposer[p].proposal_number
     IN  /\ acceptor' = [a \in Acceptors |-> AcceptorPrepare(acceptor[a], n).acceptor]
         /\ proposer' = Overtake([proposer EXCEPT ![p] =
               [proposal_number |-> n + NumAcceptors, pc |-> "prepared", n |-> n,
                value |-> value,
                responses |-> [a \in Acceptors |-> AcceptorPrepare(acceptor[a], n).response],
                outcome |-> "none", passed |-> {}]], p)
         /\ UNCHANGED <<chosen, quorumAccepted>>

\* prepare() resumes with the responses (lines 244-262): it raises, or picks the
\* value and calls accept(), whose gather() runs the acceptors' accept tasks.
AcceptPhase(p) ==
  /\ proposer[p].pc = "prepared"
  /\ IF ~IsMajority(CountTrue(proposer[p].responses, "promised"))
     THEN /\ proposer' = [proposer EXCEPT ![p] =
                [InitProposer(p) EXCEPT !.proposal_number = proposer[p].proposal_number,
                                        !.outcome = "no_promises"]]
          /\ UNCHANGED <<acceptor, chosen, quorumAccepted>>
     ELSE LET n == proposer[p].n
              v == ValueToPropose(proposer[p].responses, proposer[p].value)
              res == [a \in Acceptors |-> AcceptorAccept(acceptor[a], n, v)]
              granted == {a \in Acceptors : res[a].response.accepted}
          IN  /\ MayRun(p)
              /\ acceptor' = [a \in Acceptors |-> res[a].acceptor]
              /\ proposer' = Overtake([proposer EXCEPT ![p].pc = "accepted", ![p].value = v,
                                ![p].responses = [a \in Acceptors |-> res[a].response],
                                ![p].passed = {}], p)
              /\ quorumAccepted' = quorumAccepted \cup
                    (IF AcceptsMajority(Cardinality(granted))
                     THEN {[n |-> n, value |-> v, proposer |-> p, quorum |-> granted]}
                     ELSE {})
              /\ UNCHANGED chosen

\* accept() resumes with the responses (lines 267-272) and returns or raises.
ReturnPhase(p) ==
  /\ proposer[p].pc = "accepted"
  /\ LET ok == AcceptsMajority(CountTrue(proposer[p].responses, "accepted"))
     IN  /\ chosen' = chosen \cup
               (IF ok THEN {[proposer |-> p, value |-> proposer[p].value,
                             proposal_number |-> proposer[p].n]}
                ELSE {})
         /\ proposer' = [proposer EXCEPT ![p] =
               [InitProposer(p) EXCEPT !.proposal_number = proposer[p].proposal_number,
                                       !.outcome = IF ok THEN "chosen" ELSE "no_accepts"]]
         /\ UNCHANGED <<acceptor, quorumAccepted>>

\* ------------------------------------------------------------- specifications
NoCall == [op |-> "none"]

\* demonstrate_raft, lines 309-319: the nodes are built and every start() runs
\* up to its first sleep.
RaftInit ==
  /\ node = [i \in Nodes |-> InitNode]
  /\ timerAlive = [i \in Nodes |-> TRUE]
  /\ hbAlive = [i \in Nodes |-> FALSE]
  /\ everLeader = {}
  /\ elected = {}
  /\ committed = {}
  /\ committedSeen = [i \in Nodes |-> {}]

\* demonstrate_paxos, lines 335-336, with NumProposers proposers.
PaxosInit ==
  /\ acceptor = [a \in Acceptors |-> InitAcceptor]
  /\ proposer = [p \in Proposers |-> InitProposer(p)]
  /\ chosen = {}
  /\ quorumAccepted = {}

Init == RaftInit /\ PaxosInit /\ lastCall = NoCall

\* The Raft cluster: timers, heartbeat loops and clients.
Next ==
  \/ (\E i \in Nodes : StartElection(i)) /\ UNCHANGED <<lastCall, paxosVars>>
  \/ (\E i \in Nodes : HeartbeatTick(i)) /\ UNCHANGED <<lastCall, paxosVars>>
  \/ (\E i \in Nodes, c \in Commands : ProposeEntry(i, c)) /\ UNCHANGED <<lastCall, paxosVars>>

Spec == Init /\ [][Next]_vars

\* The Paxos proposers on their shared acceptors.
PaxosNext ==
  \/ (\E p \in Proposers, v \in Values : PreparePhase(p, v)) /\ UNCHANGED <<raftVars, lastCall>>
  \/ (\E p \in Proposers : AcceptPhase(p)) /\ UNCHANGED <<raftVars, lastCall>>
  \/ (\E p \in Proposers : ReturnPhase(p)) /\ UNCHANGED <<raftVars, lastCall>>

PaxosSpec == Init /\ [][PaxosNext]_vars

\* ------------------------------------------------------------- one operation at a time
\* HandlerSpec: node Target starts in any state of the shapes below, the other
\* nodes as fresh followers of some term, and one operation runs once: a direct
\* call of request_vote or append_entries with arguments drawn from the sets
\* below, or one step of the cluster.
\* CommitSpec: node Target starts as a leader with any match_index, and
\* _update_commit_index runs once, called directly or by propose_entry.
Target == 0
HMaxTerm == MaxTerm
HMaxLog == MaxLog - 1

\* Sequences of non-decreasing terms in 1..t, of length <= HMaxLog.
TermSeqs(t) ==
  UNION {{s \in [1 .. len -> 1 .. t] : \A j \in 1 .. (len - 1) : s[j] <= s[j + 1]} :
           len \in 0 .. HMaxLog}

\* The log holding terms s: every entry's index is its position.
EntriesOf(s) == [j \in 1 .. Len(s) |-> [term |-> s[j], command |-> "x", index |-> j - 1]]

\* The dicts _become_leader leaves over a log of length len.
FreshDicts(len) == {<<[k \in Nodes |-> -1], [k \in Nodes |-> len]>>}

\* A leader's <<match_index, next_index>> over a log of length len, after any
\* replication rounds (the peers in the order of their match_index).
LeaderDicts(id, len) ==
  {<<m, [k \in Nodes |-> IF b \/ k = id THEN len ELSE m[k] + 1]>> :
     m \in {f \in [Nodes -> -1 .. (len - 1)] :
              /\ f[id] = -1
              /\ \A k1, k2 \in Nodes \ {id} : k1 < k2 => f[k1] >= f[k2]},
     b \in BOOLEAN}

\* The leader states of node id with term t >= 1, the given log and dicts.
LeaderStates(id, t, log, dicts) ==
  {[InitNode EXCEPT !.state = "leader", !.current_term = t, !.voted_for = id,
                    !.log = log, !.commit_index = ci,
                    !.match_index = d[1], !.next_index = d[2]] :
     ci \in -1 .. (Len(log) - 1), d \in dicts}

\* The follower and candidate states of node id with term t and the given log.
OtherStates(id, t, log) ==
  LET base(st, vf, ci) == [InitNode EXCEPT !.state = st, !.current_term = t,
                                           !.voted_for = vf, !.log = log,
                                           !.commit_index = ci]
  IN  {base("follower", vf, ci) : vf \in {None} \cup Nodes, ci \in -1 .. (Len(log) - 1)}
      \cup {base("candidate", id, ci) : ci \in -1 .. (Len(log) - 1)}

NodeStates(id) ==
  UNION {UNION {OtherStates(id, t, EntriesOf(s))
                  \cup (IF t = 0 THEN {}
                        ELSE LeaderStates(id, t, EntriesOf(s), FreshDicts(Len(s)))) :
                  s \in TermSeqs(t)} : t \in 0 .. HMaxTerm}

AnyLeaderStates(id) ==
  UNION {UNION {LeaderStates(id, t, EntriesOf(s), LeaderDicts(id, Len(s))) :
                  s \in TermSeqs(t)} : t \in 1 .. HMaxTerm}

\* Arguments of the direct calls.
ArgTerms == 0 .. (HMaxTerm + 1)
ArgIndexes == -1 .. HMaxLog
ArgEntries(prev_log_index, prev_log_term) ==
  {<<>>, <<[term |-> Max(1, prev_log_term), command |-> "y", index |-> prev_log_index + 1]>>}

\* The variables that follow from the cluster's first state.
HandlerInitRest ==
  /\ timerAlive = [k \in Nodes |-> node[k].state # "leader"]
  /\ hbAlive = [k \in Nodes |-> node[k].state = "leader"]
  /\ everLeader = LeadersOf(node)
  /\ elected = {}
  /\ committed = {}
  /\ committedSeen = [k \in Nodes |-> CommittedPrefix(node[k])]
  /\ lastCall = NoCall
  /\ PaxosInit

HandlerInit ==
  /\ \E nd \in NodeStates(Target), t \in {0, HMaxTerm} :
       node = [k \in Nodes |-> IF k = Target THEN nd ELSE [InitNode EXCEPT !.current_term = t]]
  /\ HandlerInitRest

CommitInit ==
  /\ \E nd \in AnyLeaderStates(Target) :
       node = [k \in Nodes |-> IF k = Target THEN nd
                               ELSE [InitNode EXCEPT !.current_term = nd.current_term]]
  /\ HandlerInitRest

\* A direct call of request_vote on node i.
CallRequestVote(i, term, candidate_id, last_log_index, last_log_term) ==
  LET r == RequestVote(node[i], term, candidate_id, last_log_index, last_log_term)
      cl == [node EXCEPT ![i] = r.node]
  IN  /\ node' = cl
      /\ lastCall' = [op |-> "request_vote", id |-> i, term |-> term,
                      candidate_id |-> candidate_id, last_log_index |-> last_log_index,
                      last_log_term |-> last_log_term, result |-> r.result,
                      heartbeat |-> r.heartbeat, before |-> node[i]]
      /\ UNCHANGED <<timerAlive, hbAlive>>
      /\ Record(cl, {}, {})

\* A direct call of append_entries on node i.
CallAppendEntries(i, term, leader_id, prev_log_index, prev_log_term, entries, leader_commit) ==
  LET r == AppendEntries(node[i], term, leader_id, prev_log_index, prev_log_term,
                         entries, leader_commit)
      cl == [node EXCEPT ![i] = r.node]
  IN  /\ node' = cl
      /\ lastCall' = [op |-> "append_entries", id |-> i, term |-> term,
                      leader_id |-> leader_id, prev_log_index |-> prev_log_index,
                      prev_log_term |-> prev_log_term, entries |-> entries,
                      leader_commit |-> leader_commit, result |-> r.result,
                      heartbeat |-> r.heartbeat, before |-> node[i]]
      /\ UNCHANGED <<timerAlive, hbAlive>>
      /\ Record(cl, {}, {})

\* A direct call of _update_commit_index on node i.
CallUpdateCommitIndex(i) ==
  LET cl == [node EXCEPT ![i] = UpdateCommitIndex(node[i], i)]
  IN  /\ node' = cl
      /\ lastCall' = [op |-> "update_commit_index", id |-> i, before |-> node[i]]
      /\ UNCHANGED <<timerAlive, hbAlive>>
      /\ Record(cl, {}, {})

\* A direct call of propose_entry(command) on node i, in whatever role it is.
CallProposeEntry(i, command) ==
  LET r == ProposeEntryCall(node, i, command)
  IN  /\ Len(node[i].log) < MaxLog
      /\ node' = r.cluster
      /\ lastCall' = [op |-> "propose_entry", id |-> i, command |-> command,
                      raised |-> r.raised, sent |-> r.sent, before |-> node[i]]
      /\ UNCHANGED <<timerAlive, hbAlive>>
      /\ Record(r.cluster, {},
           {[index |-> idx, entry |-> At(r.cluster[i].log, idx),
             term |-> r.cluster[i].current_term] :
              idx \in (node[i].commit_index + 1) .. r.cluster[i].commit_index})

\* One step of the cluster, recorded as the operation run.
ClusterStep(op) == lastCall' = [op |-> op, before |-> node[Target]]

\* Exactly one operation runs.
Once == lastCall = NoCall

HandlerNext ==
  \/ /\ Once /\ UNCHANGED paxosVars
     /\ \E t \in ArgTerms, c \in Nodes \ {Target}, lli \in ArgIndexes \ {HMaxLog},
          llt \in 0 .. HMaxTerm : CallRequestVote(Target, t, c, lli, llt)
  \/ /\ Once /\ UNCHANGED paxosVars
     /\ \E t \in ArgTerms, pli \in ArgIndexes \ {HMaxLog}, plt \in 0 .. HMaxTerm,
          lc \in ArgIndexes :
          \E e \in ArgEntries(pli, plt) : CallAppendEntries(Target, t, 1, pli, plt, e, lc)
  \/ /\ Once /\ UNCHANGED paxosVars
     /\ (\E i \in Nodes : StartElection(i)) /\ ClusterStep("start_election")
  \/ /\ Once /\ UNCHANGED paxosVars
     /\ (\E i \in Nodes : HeartbeatTick(i)) /\ ClusterStep("heartbeat")
  \/ /\ Once /\ UNCHANGED paxosVars
     /\ \E i \in Nodes, c \in Commands : CallProposeEntry(i, c)

HandlerSpec == HandlerInit /\ [][HandlerNext]_vars

CommitNext ==
  \/ /\ Once /\ UNCHANGED paxosVars
     /\ CallUpdateCommitIndex(Target)
  \/ /\ Once /\ UNCHANGED paxosVars
     /\ (\E c \in Commands : ProposeEntry(Target, c)) /\ ClusterStep("propose_entry")

CommitSpec == CommitInit /\ [][CommitNext]_vars

\* ------------------------------------------------------------- _become_leader called once
\* LeaderSpec: node Target is a candidate in any state, with or without dicts
\* left from an earlier leadership, the other nodes are fresh followers of some
\* term, and _become_leader runs once on Target.
LeaderInit ==
  /\ \E nd \in AnyLeaderStates(Target) \cup NodeStates(Target), t \in {0, HMaxTerm} :
       /\ nd.current_term >= 1
       /\ node = [k \in Nodes |->
                    IF k = Target THEN [nd EXCEPT !.state = "candidate", !.voted_for = Target]
                    ELSE [InitNode EXCEPT !.current_term = t]]
  /\ HandlerInitRest

\* A direct call of _become_leader on node i, lines 107-121.
CallBecomeLeader(i) ==
  LET cl == SendHeartbeat([node EXCEPT ![i] = BecomeLeader(node[i])], i)
  IN  /\ node' = cl
      /\ lastCall' = [op |-> "become_leader", id |-> i, before |-> node[i]]
      /\ hbAlive' = [hbAlive EXCEPT ![i] = TRUE]
      /\ UNCHANGED timerAlive
      /\ Record(cl, {[term |-> node[i].current_term, id |-> i, log |-> node[i].log]}, {})

LeaderNext == Once /\ CallBecomeLeader(Target) /\ UNCHANGED paxosVars

LeaderSpec == LeaderInit /\ [][LeaderNext]_vars

\* ------------------------------------------------------------- one node, any calls
\* VoteSpec: node Target, fresh from __init__, handles request_vote and
\* append_entries calls in any order and number, with arguments drawn from the
\* sets above (nothing is committed: leader_commit is -1); lastCall keeps every
\* <<term, candidate>> it granted a vote to.
Grants == IF lastCall = NoCall THEN {} ELSE lastCall.grants

VoteRequestVote(term, candidate_id, last_log_index, last_log_term) ==
  LET r == RequestVote(node[Target], term, candidate_id, last_log_index, last_log_term)
      cl == [node EXCEPT ![Target] = r.node]
  IN  /\ node' = cl
      /\ lastCall' = [op |-> "request_vote", id |-> Target,
                      grants |-> Grants \cup (IF r.result THEN {<<term, candidate_id>>}
                                              ELSE {})]
      /\ UNCHANGED <<timerAlive, hbAlive>>
      /\ Record(cl, {}, {})

VoteAppendEntries(term, leader_id, prev_log_index, prev_log_term, entries, leader_commit) ==
  LET r == AppendEntries(node[Target], term, leader_id, prev_log_index, prev_log_term,
                         entries, leader_commit)
      cl == [node EXCEPT ![Target] = r.node]
  IN  /\ node' = cl
      /\ lastCall' = [op |-> "append_entries", id |-> Target, grants |-> Grants]
      /\ UNCHANGED <<timerAlive, hbAlive>>
      /\ Record(cl, {}, {})

VoteNext ==
  \/ /\ UNCHANGED paxosVars
     /\ \E t \in 0 .. HMaxTerm, c \in Nodes \ {Target}, lli \in ArgIndexes \ {HMaxLog},
          llt \in 0 .. HMaxTerm : VoteRequestVote(t, c, lli, llt)
  \/ /\ UNCHANGED paxosVars
     /\ \E t \in 0 .. HMaxTerm, pli \in ArgIndexes \ {HMaxLog}, plt \in 0 .. HMaxTerm :
          \E e \in ArgEntries(pli, plt) : VoteAppendEntries(t, 1, pli, plt, e, -1)

VoteSpec == Init /\ [][VoteNext]_vars

\* ------------------------------------------------------------- the cluster, step by step
\* A step of the cluster leaves its name and its node in lastCall.
Step(op, i) == lastCall' = [op |-> op, id |-> i]

\* TimelySpec: the cluster with the timing of lines 37-38 and 56.  A node's
\* timer passes the test of line 56 only if no append_entries reached the node
\* for election_timeout >= 0.15 s, and a running heartbeat loop calls
\* append_entries on every other node each heartbeat_interval = 0.05 s (line
\* 126): while some heartbeat loop runs, no election timer expires.  A sleeping
\* timer does wake (weak fairness of the election step).  Clients call
\* propose_entry on any node.
TimelyElection(i) ==
  /\ \A j \in Nodes : ~hbAlive[j]
  /\ StartElection(i)

TimelyNext ==
  \/ (\E i \in Nodes : TimelyElection(i) /\ Step("start_election", i)) /\ UNCHANGED paxosVars
  \/ (\E i \in Nodes : HeartbeatTick(i) /\ Step("heartbeat", i)) /\ UNCHANGED paxosVars
  \/ (\E i \in Nodes, c \in Commands : CallProposeEntry(i, c)) /\ UNCHANGED paxosVars

TimelySpec ==
  /\ Init
  /\ [][TimelyNext]_vars
  /\ WF_vars((\E i \in Nodes : TimelyElection(i) /\ Step("start_election", i))
               /\ UNCHANGED paxosVars)

\* TimersSpec: the cluster of Spec for enough terms that every node can have
\* led once.  A sleeping task wakes: asyncio.sleep returns (lines 53, 126), so
\* each node's election step and heartbeat step is weakly fair; clients call
\* when they like.
TimersMaxTerm == NumNodes + 1

TimersElection(i) ==
  /\ node[i].current_term < TimersMaxTerm
  /\ ElectionRun(i)
  /\ UNCHANGED <<lastCall, paxosVars>>

TimersHeartbeat(i) == HeartbeatTick(i) /\ UNCHANGED <<lastCall, paxosVars>>

TimersNext ==
  \/ \E i \in Nodes : TimersElection(i)
  \/ \E i \in Nodes : TimersHeartbeat(i)
  \/ (\E i \in Nodes, c \in Commands : ProposeEntry(i, c)) /\ UNCHANGED <<lastCall, paxosVars>>

TimersSpec ==
  /\ Init
  /\ [][TimersNext]_vars
  /\ \A i \in Nodes : WF_vars(TimersElection(i)) /\ WF_vars(TimersHeartbeat(i))

\* TracedSpec: the cluster of Spec, each step leaving its name and its node in
\* lastCall.
TracedNext ==
  \/ (\E i \in Nodes : StartElection(i) /\ Step("start_election", i)) /\ UNCHANGED paxosVars
  \/ (\E i \in Nodes : HeartbeatTick(i) /\ Step("heartbeat", i)) /\ UNCHANGED paxosVars
  \/ (\E i \in Nodes, c \in Commands : ProposeEntry(i, c) /\ Step("propose_entry", i))
       /\ UNCHANGED paxosVars

TracedSpec == Init /\ [][TracedNext]_vars

\* ------------------------------------------------------------- acceptors called directly
\* AcceptorSpec: a caller picks one acceptor (the acceptors share no state) and
\* sends it prepare(n) and accept(n, value) calls, in any order and number, with
\* any n of ArgNumbers; lastCall keeps whether an accept() was ever granted.
ArgNumbers == -2 .. MaxRounds

\* The caller stays with the acceptor of its first call.
SameAcceptor(a) == IF lastCall = NoCall THEN TRUE ELSE lastCall.id = a

\* Whether the caller's acceptor has granted an accept() so far.
EverAccepted == IF lastCall = NoCall THEN FALSE ELSE lastCall.granted

\* A direct call of PaxosAcceptor.prepare(n) on acceptor a.
CallAcceptorPrepare(a, n) ==
  LET r == AcceptorPrepare(acceptor[a], n)
  IN  /\ SameAcceptor(a)
      /\ acceptor' = [acceptor EXCEPT ![a] = r.acceptor]
      /\ lastCall' = [op |-> "acceptor_prepare", id |-> a, n |-> n,
                      response |-> r.response, before |-> acceptor[a],
                      granted |-> EverAccepted]
      /\ UNCHANGED <<raftVars, proposer, chosen, quorumAccepted>>

\* A direct call of PaxosAcceptor.accept(n, value) on acceptor a.
CallAcceptorAccept(a, n, value) ==
  LET r == AcceptorAccept(acceptor[a], n, value)
  IN  /\ SameAcceptor(a)
      /\ acceptor' = [acceptor EXCEPT ![a] = r.acceptor]
      /\ lastCall' = [op |-> "acceptor_accept", id |-> a, n |-> n, value |-> value,
                      response |-> r.response, before |-> acceptor[a],
                      granted |-> (EverAccepted \/ r.response.accepted)]
      /\ UNCHANGED <<raftVars, proposer, chosen, quorumAccepted>>

AcceptorNext ==
  \/ \E a \in Acceptors, n \in ArgNumbers : CallAcceptorPrepare(a, n)
  \/ \E a \in Acceptors, n \in ArgNumbers, v \in Values : CallAcceptorAccept(a, n, v)

AcceptorSpec == Init /\ [][AcceptorNext]_vars

\* ------------------------------------------------------------- proposers of any ids
\* ProposerIdSpec: NumProposers proposers are built with any distinct ids of
\* ProposerIds on the same acceptors, and run prepare() as in PaxosSpec; lastCall
\* keeps every <<proposer id, proposal number>> a prepare() run has used.
ProposerIds == 1 .. (NumAcceptors + NumProposers)

UsedNumbers == IF lastCall = NoCall THEN {} ELSE lastCall.used

ProposerIdInit ==
  /\ RaftInit
  /\ acceptor = [a \in Acceptors |-> InitAcceptor]
  /\ \E ids \in SUBSET ProposerIds :
       /\ Cardinality(ids) = NumProposers
       /\ proposer = [p \in ids |-> InitProposer(p)]
  /\ chosen = {}
  /\ quorumAccepted = {}
  /\ lastCall = NoCall

ProposerIdNext ==
  \/ /\ \E p \in DOMAIN proposer, v \in Values :
          /\ PreparePhase(p, v)
          /\ lastCall' = [op |-> "prepare", id |-> p, n |-> proposer[p].proposal_number,
                          used |-> UsedNumbers \cup {<<p, proposer[p].proposal_number>>}]
     /\ UNCHANGED raftVars
  \/ (\E p \in DOMAIN proposer : AcceptPhase(p)) /\ UNCHANGED <<raftVars, lastCall>>
  \/ (\E p \in DOMAIN proposer : ReturnPhase(p)) /\ UNCHANGED <<raftVars, lastCall>>

ProposerIdSpec == ProposerIdInit /\ [][ProposerIdNext]_vars

\* ------------------------------------------------------------- acceptors promised elsewhere
\* QuorumSpec: before the proposers of PaxosSpec run, another caller has sent
\* prepare(OutsideNumber) to the first k acceptors of its list, for any k, so
\* that a proposer's first numbers are refused by those acceptors and granted
\* by the others.
OutsideNumber == NumAcceptors

QuorumInit ==
  /\ RaftInit
  /\ \E k \in 0 .. NumAcceptors :
       acceptor = [a \in Acceptors |->
                     IF a < k THEN AcceptorPrepare(InitAcceptor, OutsideNumber).acceptor
                     ELSE InitAcceptor]
  /\ proposer = [p \in Proposers |-> InitProposer(p)]
  /\ chosen = {}
  /\ quorumAccepted = {}
  /\ lastCall = NoCall

QuorumSpec == QuorumInit /\ [][PaxosNext]_vars

\* ------------------------------------------------------------- claims
\* C1. Election Safety: for every term T at most one node has ever been in
\* state 'leader' with current_term = T.
ElectionSafety ==
  \A a, b \in everLeader : a[1] = b[1] => a[2] = b[2]

\* Two different nodes have been leader, in different terms.
ElectionSafetyWitness ==
  \E a, b \in everLeader : a[1] # b[1] /\ a[2] # b[2]

\* C2. Paxos agreement: any two prepare() runs that returned chosen=True
\* returned the same value.
PaxosAgreement ==
  \A c1, c2 \in chosen : c1.value = c2.value

LogMatching ==
  \A i, j \in Nodes :
    \A x \in 0 .. (Min(Len(node[i].log), Len(node[j].log)) - 1) :
      At(node[i].log, x).term = At(node[j].log, x).term =>
        \A y \in 0 .. (x - 1) : At(node[i].log, y) = At(node[j].log, y)

\* Two nodes agree on the term at index 1, an entry written by a later
\* leader than the entry at index 0, which a follower received from both.
LogMatchingWitness ==
  \E i, j \in Nodes :
    /\ i # j
    /\ node[i].state = "follower"
    /\ Len(node[i].log) >= 2
    /\ Len(node[j].log) >= 2
    /\ At(node[i].log, 1).term = At(node[j].log, 1).term
    /\ At(node[i].log, 0).term < At(node[i].log, 1).term

\* C5. Leader Completeness: every node that became leader in a term greater
\* than T held, when it became leader, every entry a leader committed in term T.
LeaderCompleteness ==
  \A e \in elected : \A c \in committed :
    e.term > c.term =>
      c.index < Len(e.log) /\ At(e.log, c.index) = c.entry

\* A leader was elected in a term after the one in which an entry was committed.
LeaderCompletenessWitness ==
  \E e \in elected : \E c \in committed : e.term > c.term

\* C6. current_term never decreases, in any step of any node.
TermNeverDecreases ==
  [][\A i \in Nodes : node'[i].current_term >= node[i].current_term]_vars

\* A node handled an RPC carrying a term below its own and kept its term.
TermNeverDecreasesWitness ==
  /\ lastCall.op \in {"request_vote", "append_entries"}
  /\ lastCall.term < lastCall.before.current_term
  /\ node[Target].current_term = lastCall.before.current_term

CommitNeedsQuorumAndTerm ==
  [][\A i \in Nodes :
       (node[i].state = "leader" /\ node'[i].state = "leader"
          /\ node'[i].commit_index # node[i].commit_index) =>
         LET c == node'[i].commit_index
         IN  /\ c >= 0 /\ c < Len(node'[i].log)
             /\ Cardinality({k \in Nodes :
                   k = i \/ DictGet(node'[i].match_index, k, -1) >= c})
                  >= (NumNodes \div 2) + 1
             /\ At(node'[i].log, c).term = node'[i].current_term]_vars

\* _update_commit_index advanced commit_index over an entry of an older term.
CommitNeedsQuorumAndTermWitness ==
  /\ lastCall.op = "update_commit_index"
  /\ node[Target].commit_index > lastCall.before.commit_index
  /\ \E j \in (lastCall.before.commit_index + 1) .. (node[Target].commit_index - 1) :
       At(node[Target].log, j).term < node[Target].current_term

\* C10. Paxos round-trip: once a majority accepted value v with number n, every
\* later PaxosAcceptor.prepare(m), m > n, of another proposer on an acceptor of
\* that majority reports accepted_value = v.
PaxosRoundTrip ==
  [][\A p \in Proposers :
       (proposer[p].pc = "idle" /\ proposer'[p].pc = "prepared") =>
         \A h \in quorumAccepted :
           (proposer'[p].n > h.n /\ p # h.proposer) =>
             \A a \in h.quorum :
               DictGet(proposer'[p].responses[a], "accepted_value", None) = h.value]_vars

\* C11. On every PaxosAcceptor promised_n and accepted_n never decrease, under
\* any sequence of prepare(n) and accept(n, value) calls with any n.
AcceptorNumbersNeverDecrease ==
  [][\A a \in Acceptors :
       /\ acceptor'[a].promised_n >= acceptor[a].promised_n
       /\ acceptor'[a].accepted_n >= acceptor[a].accepted_n]_vars

\* An accept with a number below the promised one was refused by an acceptor
\* that had accepted before.
AcceptorNumbersNeverDecreaseWitness ==
  /\ lastCall.op = "acceptor_accept"
  /\ ~lastCall.response.accepted
  /\ lastCall.n < lastCall.before.accepted_n
  /\ acceptor[lastCall.id] = lastCall.before

\* C12. request_vote returns True iff, after adopting a larger term, term equals
\* current_term, voted_for is None or the candidate, and the candidate's last
\* entry is at least as up to date as the receiver's (last term 0 for an empty
\* log); on True voted_for is the candidate, on False voted_for is not assigned
\* the candidate (it is None after an adoption, else what it was).
RequestVoteGrantsIff ==
  lastCall.op = "request_vote" =>
    LET b == lastCall.before
        adopts == lastCall.term > b.current_term
        ct == IF adopts THEN lastCall.term ELSE b.current_term
        vf == IF adopts THEN None ELSE b.voted_for
        lastTerm == IF Len(b.log) = 0 THEN 0 ELSE b.log[Len(b.log)].term
        upToDate == \/ lastCall.last_log_term > lastTerm
                    \/ /\ lastCall.last_log_term = lastTerm
                       /\ lastCall.last_log_index >= Len(b.log) - 1
        grant == /\ lastCall.term = ct
                 /\ vf \in {None, lastCall.candidate_id}
                 /\ upToDate
    IN  /\ lastCall.result = grant
        /\ lastCall.result => node[lastCall.id].voted_for = lastCall.candidate_id
        /\ ~lastCall.result => node[lastCall.id].voted_for = vf

\* A node that had voted for another candidate adopted a larger term and
\* granted its vote; its log was not empty.
RequestVoteGrantsIffWitness ==
  /\ lastCall.op = "request_vote"
  /\ lastCall.result
  /\ lastCall.term > lastCall.before.current_term
  /\ lastCall.before.voted_for \notin {None, lastCall.candidate_id}
  /\ Len(lastCall.before.log) > 0

\* C13. A node in any role that handles a RequestVote or an AppendEntries whose
\* term is greater than its current_term ends the handler with that term and in
\* state 'follower', whatever the handler returns.
LargerTermMakesFollower ==
  (lastCall.op \in {"request_vote", "append_entries"}
     /\ lastCall.term > lastCall.before.current_term) =>
    /\ node[lastCall.id].current_term = lastCall.term
    /\ node[lastCall.id].state = "follower"

\* A leader handled an RPC of a larger term, refused it and stepped down.
LargerTermMakesFollowerWitness ==
  /\ lastCall.op \in {"request_vote", "append_entries"}
  /\ lastCall.term > lastCall.before.current_term
  /\ lastCall.before.state = "leader"
  /\ ~lastCall.result
  /\ node[lastCall.id].state = "follower"

\* C14. append_entries with term < current_term returns False and leaves the
\* receiver's current_term, state, voted_for, log and commit_index as they were;
\* last_heartbeat is not assigned.
StaleAppendRejected ==
  (lastCall.op = "append_entries" /\ lastCall.term < lastCall.before.current_term) =>
    LET b == lastCall.before
        a == node[lastCall.id]
    IN  /\ ~lastCall.result
        /\ ~lastCall.heartbeat
        /\ a.current_term = b.current_term
        /\ a.state = b.state
        /\ a.voted_for = b.voted_for
        /\ a.log = b.log
        /\ a.commit_index = b.commit_index

\* A leader that had voted received a stale append_entries whose entries and
\* leader_commit would have changed its log and commit_index.
StaleAppendRejectedWitness ==
  /\ lastCall.op = "append_entries"
  /\ lastCall.term < lastCall.before.current_term
  /\ lastCall.before.state = "leader"
  /\ lastCall.before.voted_for # None
  /\ lastCall.entries # <<>>
  /\ lastCall.prev_log_index = -1
  /\ lastCall.leader_commit > lastCall.before.commit_index


\* C15. append_entries with term >= current_term that fails the consistency
\* check (prev_log_index >= 0 and the log is not longer than prev_log_index or
\* its entry there has another term) returns False and leaves the receiver's
\* log and commit_index as they were, also when the receiver was a leader.
MismatchRejected ==
  LET b == lastCall.before
  IN  (/\ lastCall.op = "append_entries"
       /\ lastCall.term >= b.current_term
       /\ lastCall.prev_log_index >= 0
       /\ \/ Len(b.log) <= lastCall.prev_log_index
          \/ b.log[lastCall.prev_log_index + 1].term # lastCall.prev_log_term) =>
        /\ ~lastCall.result
        /\ node[lastCall.id].log = b.log
        /\ node[lastCall.id].commit_index = b.commit_index

\* A leader received an append_entries whose prev_log_term differs from the
\* term of its entry at prev_log_index, with entries and a larger leader_commit.
MismatchRejectedWitness ==
  /\ lastCall.op = "append_entries"
  /\ lastCall.before.state = "leader"
  /\ lastCall.term >= lastCall.before.current_term
  /\ lastCall.prev_log_index >= 0
  /\ Len(lastCall.before.log) > lastCall.prev_log_index
  /\ lastCall.before.log[lastCall.prev_log_index + 1].term # lastCall.prev_log_term
  /\ lastCall.entries # <<>>
  /\ lastCall.leader_commit > lastCall.before.commit_index
  /\ ~lastCall.result


\* C16 (as claimed). After every accepted append_entries the receiver's log is
\* its previous log cut to the first prev_log_index + 1 entries, followed by
\* entries, for every entries list, the empty list of a heartbeat included.
AcceptedAppendCutsLog ==
  (lastCall.op = "append_entries" /\ lastCall.result) =>
    node[lastCall.id].log =
      SubSeq(lastCall.before.log, 1, lastCall.prev_log_index + 1) \o lastCall.entries

\* C16 (amended). After every accepted append_entries with a non-empty entries
\* list (prev_log_index >= -1) the receiver's log is its previous log cut to the
\* first prev_log_index + 1 entries, followed by entries; with an empty entries
\* list the log is left as it was.
AcceptedAppendCutsLogIfEntries ==
  (lastCall.op = "append_entries" /\ lastCall.result) =>
    node[lastCall.id].log =
      IF lastCall.entries # <<>>
      THEN SubSeq(lastCall.before.log, 1, lastCall.prev_log_index + 1) \o lastCall.entries
      ELSE lastCall.before.log

\* An accepted append_entries replaced the receiver's entries behind
\* prev_log_index by the entries sent.
AcceptedAppendCutsLogIfEntriesWitness ==
  /\ lastCall.op = "append_entries"
  /\ lastCall.result
  /\ lastCall.entries # <<>>
  /\ lastCall.prev_log_index >= 0
  /\ Len(lastCall.before.log) > lastCall.prev_log_index + 1
  /\ node[lastCall.id].log # lastCall.before.log


\* C17. After every accepted append_entries the receiver's commit_index is
\* max(old commit_index, min(leader_commit, len(log) - 1)), the log being the one
\* after the append: it is replaced only by a larger value.
AcceptedAppendCommit ==
  (lastCall.op = "append_entries" /\ lastCall.result) =>
    LET a == node[lastCall.id]
    IN  a.commit_index =
          Max(lastCall.before.commit_index, Min(lastCall.leader_commit, Len(a.log) - 1))


\* C18. propose_entry on a node whose state is not 'leader' raises and leaves
\* every node of the cluster as it was (so the caller's log, commit_index and
\* current_term too); it calls no append_entries.
ProposeOnNonLeaderRaises ==
  [][(lastCall'.op = "propose_entry" /\ lastCall'.before.state # "leader") =>
       /\ lastCall'.raised
       /\ lastCall'.sent = {}
       /\ node' = node]_vars

\* A follower that holds entries refused a proposal.
ProposeOnNonLeaderRaisesWitness ==
  /\ lastCall.op = "propose_entry"
  /\ lastCall.raised
  /\ lastCall.before.state = "follower"
  /\ Len(lastCall.before.log) > 0
  /\ node[lastCall.id] = lastCall.before


\* C19. In every reachable state every entry of every node's log has its index
\* field equal to its position in that log (log[i].index = i).
IndexIsPosition ==
  \A i \in Nodes : \A j \in 0 .. (Len(node[i].log) - 1) : At(node[i].log, j).index = j

\* A follower holds entries that leaders of two terms proposed and replicated.
IndexIsPositionWitness ==
  \E i \in Nodes :
    /\ node[i].state = "follower"
    /\ \A e \in everLeader : e[2] # i
    /\ Len(node[i].log) >= 2
    /\ At(node[i].log, 0).term # LastLogTerm(node[i].log)


\* C20. Scenario C: when a leader over empty logs proposes one command, then
\* after that call the leader has commit_index 0 and get_committed_entries()
\* returns exactly that entry, while every other node has commit_index -1 and
\* no committed entry; and when that leader's heartbeat is the next step, every
\* node's get_committed_entries() returns exactly that entry afterwards.
ScenarioC ==
  [][\A i \in Nodes :
       /\ (/\ lastCall' = [op |-> "propose_entry", id |-> i]
           /\ \A k \in Nodes : node[k].log = <<>>) =>
            /\ node'[i].commit_index = 0
            /\ Len(node'[i].log) = 1
            /\ GetCommittedEntries(node'[i]) = node'[i].log
            /\ \A k \in Nodes \ {i} :
                  node'[k].commit_index = -1 /\ GetCommittedEntries(node'[k]) = <<>>
       /\ (/\ lastCall = [op |-> "propose_entry", id |-> i]
           /\ Len(node[i].log) = 1
           /\ lastCall' = [op |-> "heartbeat", id |-> i]) =>
            \A k \in Nodes :
              node'[k].commit_index = 0 /\ GetCommittedEntries(node'[k]) = node[i].log]_vars

\* The first leader proposed one command and its next heartbeat reached every
\* other node: all of them report that one entry as committed.
ScenarioCWitness ==
  \E i \in Nodes :
    /\ lastCall = [op |-> "heartbeat", id |-> i]
    /\ everLeader = {<<1, i>>}
    /\ node[i].state = "leader"
    /\ Len(node[i].log) = 1
    /\ \A k \in Nodes : node[k].commit_index = 0 /\ GetCommittedEntries(node[k]) = node[i].log


LeaderStepsDownOnRejection ==
  [][(/\ lastCall'.op \in {"heartbeat", "propose_entry"}
      /\ (lastCall'.op = "propose_entry" => lastCall'.id = Target)
      /\ node[Target].state = "leader"
      /\ \E k \in Nodes : node[k].current_term > node[Target].current_term) =>
       ~(/\ node'[Target].state = "leader"
         /\ node'[Target].current_term = node[Target].current_term)]_vars

\* C23. PaxosAcceptor.prepare(n) returns promised=True iff n > promised_n held
\* before the call; on a grant promised_n becomes n, on a refusal promised_n,
\* accepted_n and accepted_value are as they were.
PrepareGrantsIff ==
  lastCall.op = "acceptor_prepare" =>
    /\ lastCall.response.promised = (lastCall.n > lastCall.before.promised_n)
    /\ lastCall.response.promised => acceptor[lastCall.id].promised_n = lastCall.n
    /\ ~lastCall.response.promised => acceptor[lastCall.id] = lastCall.before

\* A prepare with the very number already promised was refused by an acceptor
\* that holds an accepted value.
PrepareGrantsIffWitness ==
  /\ lastCall.op = "acceptor_prepare"
  /\ lastCall.n = lastCall.before.promised_n
  /\ lastCall.before.accepted_n >= 0
  /\ ~lastCall.response.promised

AcceptGrantsIff ==
  lastCall.op = "acceptor_accept" =>
    /\ lastCall.response.accepted = (lastCall.n >= lastCall.before.promised_n)
    /\ lastCall.response.accepted =>
          acceptor[lastCall.id] = [promised_n |-> lastCall.n, accepted_n |-> lastCall.n,
                                   accepted_value |-> lastCall.value]
    /\ ~lastCall.response.accepted => acceptor[lastCall.id] = lastCall.before

\* An accept with the very number promised was granted and replaced a value
\* accepted under a lower number.
AcceptGrantsIffWitness ==
  /\ lastCall.op = "acceptor_accept"
  /\ lastCall.response.accepted
  /\ lastCall.n = lastCall.before.promised_n
  /\ lastCall.before.accepted_value \notin {None, lastCall.value}
  /\ lastCall.before.accepted_n < lastCall.n


\* C26. The value PaxosProposer.prepare(value) sends in its Accept phase is the
\* accepted_value of the promising response with the highest accepted_n among
\* the promising responses that report an accepted pair, whatever that value is
\* (0 included), and the proposer's own value only if there is none.
SendsHighestAccepted ==
  [][\A p \in Proposers :
       (proposer[p].pc = "prepared" /\ proposer'[p].pc = "accepted") =>
         LET rs == proposer[p].responses
             reporting == {a \in Acceptors : rs[a].promised /\ rs[a].accepted_value # None}
             top == CHOOSE a \in reporting :
                      \A b \in reporting : rs[a].accepted_n >= rs[b].accepted_n
         IN  proposer'[p].value =
               IF reporting = {} THEN proposer[p].value ELSE rs[top].accepted_value]_vars

\* C27. Proposal numbers are never reused: a proposer's numbers increase
\* strictly from one prepare() run to its next, and no number one proposer has
\* used is used by a proposer of another id on the same acceptors.
NumbersNeverReused ==
  [][\A p \in DOMAIN proposer :
       (proposer[p].pc = "idle" /\ proposer'[p].pc = "prepared") =>
         \A u \in UsedNumbers :
           /\ u[1] = p => proposer'[p].n > u[2]
           /\ u[1] # p => proposer'[p].n # u[2]]_vars

\* C28. PaxosProposer.prepare(value) raises in its Prepare phase iff fewer than
\* floor(n/2) + 1 of the n acceptors promise; then no accept is sent and no
\* acceptor changes.
PrepareFailsIffNoQuorum ==
  [][\A p \in Proposers :
       (proposer[p].pc = "prepared" /\ proposer'[p].pc # "prepared") =>
         LET promising == {a \in Acceptors : proposer[p].responses[a].promised}
             fails == proposer'[p].outcome = "no_promises"
         IN  /\ fails = (Cardinality(promising) < (NumAcceptors \div 2) + 1)
             /\ fails => (proposer'[p].pc = "idle" /\ acceptor' = acceptor)
             /\ ~fails => proposer'[p].pc = "accepted"]_vars

\* A prepare() run failed although an acceptor had promised its number.
PrepareFailsIffNoQuorumWitness ==
  \E p \in Proposers :
    /\ proposer[p].outcome = "no_promises"
    /\ \E a \in Acceptors :
         acceptor[a].promised_n = proposer[p].proposal_number - NumAcceptors

\* C29. PaxosProposer.accept(n, value) returns chosen=True with that value iff
\* at least floor(n_acceptors/2) + 1 acceptors return accepted=True, and raises
\* otherwise; when it returns chosen=True a quorum of acceptors hold
\* accepted_n = n and accepted_value = value.
AcceptChoosesIffQuorum ==
  [][\A p \in Proposers :
       (proposer[p].pc = "accepted" /\ proposer'[p].pc # "accepted") =>
         LET granted == {a \in Acceptors : proposer[p].responses[a].accepted}
             holding == {a \in Acceptors : /\ acceptor[a].accepted_n = proposer[p].n
                                           /\ acceptor[a].accepted_value = proposer[p].value}
             result == [proposer |-> p, value |-> proposer[p].value,
                        proposal_number |-> proposer[p].n]
             ok == proposer'[p].outcome = "chosen"
         IN  /\ ok = (Cardinality(granted) >= (NumAcceptors \div 2) + 1)
             /\ ok => (result \in chosen' /\ Cardinality(holding) >= (NumAcceptors \div 2) + 1)
             /\ ~ok => (proposer'[p].outcome = "no_accepts" /\ chosen' = chosen)]_vars

\* An accept() run returned chosen=True although an acceptor had refused it.
AcceptChoosesIffQuorumWitness ==
  \E c \in chosen : \E a \in Acceptors :
    /\ acceptor[a].accepted_value = None
    /\ acceptor[a].promised_n > c.proposal_number
    /\ proposer[c.proposer].outcome = "chosen"

\* C30. Granting a vote resets the granting node's election timer: after
\* request_vote returns True, last_heartbeat has been assigned the current time,
\* as after a valid append_entries.
VoteGrantResetsTimer ==
  (lastCall.op = "request_vote" /\ lastCall.result) => lastCall.heartbeat


\* C31. A node sends append_entries only while its state is 'leader': the
\* heartbeat loop of a leader that stepped down sends no further heartbeat.
OnlyLeaderSendsHeartbeat ==
  [][lastCall'.op = "heartbeat" => node[lastCall'.id].state = "leader"]_vars
\* C32. No terminal state: a node that stays in state 'follower' and receives
\* no append_entries any more (no heartbeat loop runs) becomes candidate again,
\* which raises its term: it does not stay a follower of one term below the
\* bound for ever, a node that led and stepped down included.
FollowerStandsAgain ==
  \A i \in Nodes :
    ~<>[](/\ node[i].state = "follower"
          /\ node[i].current_term < TimersMaxTerm
          /\ \A j \in Nodes : ~hbAlive[j] /\ node[j].state # "leader")


\* C33. One vote per term: under any sequence of request_vote and
\* append_entries calls a node grants its vote to at most one candidate per
\* term, and its voted_for, once set, is cleared or changed only by a call that
\* raises its current_term.
OneVotePerTerm ==
  [][/\ \A g1, g2 \in lastCall'.grants : g1[1] = g2[1] => g1[2] = g2[2]
     /\ (/\ node[Target].voted_for # None
         /\ node'[Target].voted_for # node[Target].voted_for) =>
          node'[Target].current_term > node[Target].current_term]_vars

\* C34. A node enters state 'leader' for term T only from an election it ran
\* for term T (its current_term + 1) in which at least floor(n/2) + 1 nodes,
\* itself included, granted their vote for T.  (The vote requests run inline in
\* _start_election: the candidate handles no other call before the tally.)
LeaderOnlyByQuorum ==
  [][\A i \in Nodes :
       (node[i].state # "leader" /\ node'[i].state = "leader") =>
         LET T == node[i].current_term + 1
             granted == {k \in Nodes \ {i} :
                           RequestVote(node[k], T, i, Len(node[i].log) - 1,
                                       LastLogTerm(node[i].log)).result}
         IN  /\ node'[i].current_term = T
             /\ Cardinality(granted) + 1 >= (NumNodes \div 2) + 1]_vars

\* An election was won by a bare quorum: node Target, of a greater term,
\* refused its vote.
LeaderOnlyByQuorumWitness ==
  /\ lastCall = [op |-> "start_election", before |-> node[Target]]
  /\ \E k \in Nodes \ {Target} :
       /\ node[k].state = "leader"
       /\ node[Target].current_term > node[k].current_term

\* C35. A candidate that collects fewer than floor(n/2) + 1 grants ends the
\* election a follower, keeps the term it stood for and its vote for itself,
\* and its election timer runs again.  (Node Target ran the election when no
\* other node voted for itself or leads afterwards.)
LostElectionLeavesFollower ==
  [][(/\ lastCall'.op = "start_election"
      /\ \A k \in Nodes \ {Target} : node'[k].voted_for # k /\ node'[k].state # "leader"
      /\ LET granted == {k \in Nodes \ {Target} :
                           RequestVote(node[k], node[Target].current_term + 1, Target,
                                       Len(node[Target].log) - 1,
                                       LastLogTerm(node[Target].log)).result}
         IN  Cardinality(granted) + 1 < (NumNodes \div 2) + 1) =>
       /\ node'[Target].state = "follower"
       /\ node'[Target].current_term = node[Target].current_term + 1
       /\ node'[Target].voted_for = Target
       /\ timerAlive'[Target]]_vars

\* Node Target stood for a term below the other nodes' and lost.
LostElectionLeavesFollowerWitness ==
  /\ lastCall.op = "start_election"
  /\ node[Target].current_term = lastCall.before.current_term + 1
  /\ node[Target].voted_for = Target
  /\ node[Target].state = "follower"
  /\ \A k \in Nodes \ {Target} : node[k].current_term > node[Target].current_term

\* C36. When a node becomes leader, next_index[p] = len(log) and
\* match_index[p] = -1 for every peer p, whatever an earlier leadership left in
\* the dicts, and every other node has handled an append_entries of the new
\* leader with empty entries: a node whose term is not above the leader's is a
\* follower of the leader's term with no vote and its log as before, a node of
\* a higher term is untouched.
BecomeLeaderResetsAndBeats ==
  [][lastCall'.op = "become_leader" =>
       LET i == lastCall'.id
           T == node[i].current_term
       IN  /\ node'[i].state = "leader"
           /\ node'[i].current_term = T
           /\ node'[i].log = node[i].log
           /\ \A p \in Nodes \ {i} :
                /\ node'[i].next_index[p] = Len(node[i].log)
                /\ node'[i].match_index[p] = -1
                /\ IF node[p].current_term <= T
                   THEN /\ node'[p].current_term = T
                        /\ node'[p].state = "follower"
                        /\ node'[p].voted_for = None
                        /\ node'[p].log = node[p].log
                   ELSE node'[p] = node[p]]_vars

\* The new leader had led before: its dicts held other values, and its first
\* heartbeat reached a node of a lower term.
BecomeLeaderResetsAndBeatsWitness ==
  /\ lastCall.op = "become_leader"
  /\ Len(lastCall.before.log) > 0
  /\ \E p \in Nodes \ {Target} :
       /\ p \in DOMAIN lastCall.before.match_index
       /\ lastCall.before.match_index[p] # -1
       /\ lastCall.before.next_index[p] # Len(lastCall.before.log)
       /\ node[Target].match_index[p] = -1
       /\ node[p].current_term = node[Target].current_term

\* C37. In a replication round of leader Target, for every peer p: if p's
\* append_entries returns True then match_index[p] = len(log) - 1,
\* next_index[p] = len(log) and p's log is the leader's log; if it returns
\* False then next_index[p] is one less, but not below 0, and match_index[p] is
\* as before.  Afterwards 0 <= next_index[p] <= len(log) on the leader.
ReplicationRoundUpdates ==
  [][(lastCall'.op = "propose_entry" /\ lastCall'.id = Target /\ ~lastCall'.raised) =>
       LET before == [node EXCEPT ![Target].log = node'[Target].log]
           len == Len(node'[Target].log)
       IN  \A p \in Nodes \ {Target} :
             /\ IF ReplicateCall(before, Target, p).result
                THEN /\ node'[Target].match_index[p] = len - 1
                     /\ node'[Target].next_index[p] = len
                     /\ node'[p].log = node'[Target].log
                ELSE /\ node'[Target].next_index[p]
                          = Max(0, node[Target].next_index[p] - 1)
                     /\ node'[Target].match_index[p] = node[Target].match_index[p]
             /\ node'[Target].next_index[p] >= 0
             /\ node'[Target].next_index[p] <= len]_vars

\* A peer of a higher term rejected the round while its next_index was 0, and
\* next_index stayed 0.
ReplicationRoundUpdatesWitness ==
  /\ lastCall.op = "propose_entry"
  /\ lastCall.id = Target
  /\ ~lastCall.raised
  /\ \E p \in Nodes \ {Target} :
       /\ lastCall.before.next_index[p] = 0
       /\ node[Target].next_index[p] = 0
       /\ node[Target].match_index[p] = -1
       /\ node[p].current_term > node[Target].current_term

\* C38. A node whose state is 'candidate' or 'leader' has voted_for equal to
\* its own node_id, so a request_vote of its own term by another candidate is
\* refused.
LeaderVotedForItself ==
  /\ \A i \in Nodes :
       node[i].state \in {"candidate", "leader"} => node[i].voted_for = i
  /\ lastCall.op = "request_vote" =>
       ((/\ lastCall.before.state \in {"candidate", "leader"}
         /\ lastCall.term = lastCall.before.current_term
         /\ lastCall.candidate_id # lastCall.id) => ~lastCall.result)

\* A leader refused the vote of its own term to a candidate whose log is ahead
\* of its own, and still leads.
LeaderVotedForItselfWitness ==
  /\ lastCall.op = "request_vote"
  /\ lastCall.before.state = "leader"
  /\ lastCall.term = lastCall.before.current_term
  /\ lastCall.last_log_term > LastLogTerm(lastCall.before.log)
  /\ ~lastCall.result
  /\ node[lastCall.id].state = "leader"

\* C39. Leader Append-Only: in a step in which a node is leader before and
\* after, its log keeps every entry it had, and grows only by one entry at the
\* end, in a propose_entry call on that node.
LeaderAppendOnly ==
  [][\A i \in Nodes :
       (node[i].state = "leader" /\ node'[i].state = "leader") =>
         /\ Len(node'[i].log) >= Len(node[i].log)
         /\ SubSeq(node'[i].log, 1, Len(node[i].log)) = node[i].log
         /\ node'[i].log # node[i].log =>
              /\ lastCall'.op = "propose_entry"
              /\ lastCall'.id = i
              /\ Len(node'[i].log) = Len(node[i].log) + 1]_vars

\* A leader with entries in its log took a propose_entry call and holds its
\* old entries and the new one.
LeaderAppendOnlyWitness ==
  /\ lastCall.op = "propose_entry"
  /\ ~lastCall.raised
  /\ Len(lastCall.before.log) > 0
  /\ node[lastCall.id].state = "leader"
  /\ SubSeq(node[lastCall.id].log, 1, Len(lastCall.before.log)) = lastCall.before.log
  /\ node[lastCall.id].log[Len(node[lastCall.id].log)].command = lastCall.command
\* C40. On every PaxosAcceptor accepted_n <= promised_n, and accepted_n = -1
\* exactly when the acceptor has never granted an accept().
AcceptedWithinPromised ==
  /\ \A a \in Acceptors : acceptor[a].accepted_n <= acceptor[a].promised_n
  /\ lastCall.op \in {"acceptor_prepare", "acceptor_accept"} =>
       ((acceptor[lastCall.id].accepted_n = -1) = ~lastCall.granted)

=============================================================================
